---- MODULE Spec2Model ----
(***************************************************************************)
(* Model of the Reactor actor of mmids-core (reactors/reactor.rs).         *)
(*                                                                         *)
(* The actor owns a FuturesUnordered of companion futures and handles one  *)
(* completed future per loop iteration.  Each arm of the match in          *)
(* Actor::run is one action below; the environment (requesters, the        *)
(* executor, the event hub, the workflow managers) has its own actions.    *)
(*                                                                         *)
(* The second part models the tasks spawned by                             *)
(* WorkflowStepFuturesChannel::send_on_unbounded_recv and                  *)
(* send_on_unbounded_recv_cancellable (workflows/steps/futures_channel.rs).*)
(***************************************************************************)
EXTENDS Integers, Sequences, FiniteSets, TLC

\* ------------------------------------------------------------------------
\* Bounds and value universes
\* ------------------------------------------------------------------------
MaxRequests == 2
MaxCount == 2
MaxRegistrations == 2
MaxMessages == 3

ReactorName == "r1"
Streams == {"camA", "camB"}
Handles == {"H1", "H2"}
Definitions ==
    { [name |-> "wfA", steps |-> 1],
      [name |-> "wfA", steps |-> 2],
      [name |-> "wfB", steps |-> 1] }

RequestIds == 1..MaxRequests

\* Option<T>: None is the empty tuple, Some(x) the one-element tuple.
None == <<>>
Some(x) == <<x>>
IsSome(o) == Len(o) = 1
Unwrap(o) == o[1]

Range(f) == { f[x] : x \in DOMAIN f }

\* ------------------------------------------------------------------------
\* State
\* ------------------------------------------------------------------------
VARIABLES
    running,              \* the while loop of Actor::run has not been left
    exitResult,           \* the FutureResult that broke the loop, or "none"
    requests,             \* request id -> stream name, for every request sent
    inbox,                \* ids queued on the ReactorRequest channel
    inboxClosed,          \* every UnboundedSender<ReactorRequest> was dropped
    active_requests,      \* Actor.active_requests: stream name -> reply channel
    executorFutures,      \* ids with a wait_for_executor_response future pending
    keepAliveClosed,      \* ids whose keep-alive sender was dropped or signalled
    keepAliveWatchers,    \* ids with a notify_when_keep_alive_closed future pending
    cached_workflows,     \* Actor.cached_workflows: stream name -> CachedWorkflow
    workflow_manager,     \* Actor.workflow_manager: Option<handle>
    managerEvents,        \* events queued on the event hub subscription channel
    subscriptionClosed,   \* the event hub dropped the subscription sender
    published,            \* number of WorkflowManagerRegistered events published
    managerGoneWatchers,  \* handle -> number of notify_workflow_manager_gone futures
    closedManagers,       \* handles whose receiver was dropped
    sent,                 \* the WorkflowManagerRequests sent by the last handler run
    replies,              \* request id -> value sent on its reply channel
    upserted,             \* stream name -> handles that took an upsert for the
                          \* entry now cached under that name
    upsertedNames,        \* stream name -> << handle, workflow name >> of the
                          \* upserts taken for the entry now cached under it
    resolved,             \* request id -> the Option<def> its executor future
                          \* completed with, once the actor took it
    overlapping,          \* ids whose request was handled while an executor
                          \* call for the same stream name was outstanding
    replyDropped,         \* ids whose requester dropped the receiver of the
                          \* reply channel: those in active_requests and the
                          \* one the last handler step sent on
    superseded,           \* ids that were in active_requests when a later
                          \* request for the same stream name was handled
    \* futures_channel.rs: the task spawned by send_on_unbounded_recv(_cancellable)
    receiver,             \* messages queued in the UnboundedReceiver<ReceiverMessage>
    receiverClosed,       \* every sender of that receiver was dropped
    pushed,               \* every message sent to the receiver, in order
    stepResultClosed,     \* the receiver of step_future_result_sender was dropped
    mediaResultClosed,    \* the receiver of media_result_sender was dropped
    cancelled,            \* cancellation_token was cancelled
    taskExit,             \* the select! arm that broke the task's loop, or "none"
    results,              \* the StepFutureResults handed to send_step_future_result
    closedFirst           \* the futures channel closed while the task ran, before
                          \* the receiver's senders were dropped or the token
                          \* cancelled

vars == << running, exitResult, requests, inbox, inboxClosed, active_requests,
           executorFutures, keepAliveClosed, keepAliveWatchers, cached_workflows,
           workflow_manager, managerEvents, subscriptionClosed, published,
           managerGoneWatchers, closedManagers, sent, replies, upserted,
           upsertedNames, resolved, overlapping, replyDropped, superseded,
           receiver, receiverClosed, pushed, stepResultClosed, mediaResultClosed,
           cancelled, taskExit, results, closedFirst >>

reactorVars ==
    << running, exitResult, requests, inbox, inboxClosed, active_requests,
       executorFutures, keepAliveClosed, keepAliveWatchers, cached_workflows,
       workflow_manager, managerEvents, subscriptionClosed, published,
       managerGoneWatchers, closedManagers, sent, replies, upserted,
       upsertedNames, resolved, overlapping, replyDropped, superseded >>

taskVars == << receiver, receiverClosed, pushed, stepResultClosed,
               mediaResultClosed, cancelled, taskExit, results, closedFirst >>

envVars == << requests, inbox, inboxClosed, keepAliveClosed, managerEvents,
              subscriptionClosed, published, closedManagers >>

\* ------------------------------------------------------------------------
\* Request ids and messages
\* ------------------------------------------------------------------------
StreamRequestId(stream_name) ==
    "reactor_" \o ReactorName \o "_stream_" \o stream_name

CatchupRequestId == "reactor_" \o ReactorName \o "_cache_catchup"

StopRequestId == "from_reactor"

\* A WorkflowManagerRequest as handed to UnboundedSender::send.  `to` is the
\* handle it was sent on and `delivered` whether that handle's receiver was
\* still there (send returns Err otherwise, which the actor ignores).
UpsertWorkflow(to, request_id, definition) ==
    [ to |-> to, request_id |-> request_id, operation |-> "UpsertWorkflow",
      definition |-> definition, delivered |-> to \notin closedManagers ]

StopWorkflow(to, request_id, name) ==
    [ to |-> to, request_id |-> request_id, operation |-> "StopWorkflow",
      name |-> name, delivered |-> to \notin closedManagers ]

\* ------------------------------------------------------------------------
\* Initial state: Actor::new, and the task just spawned on a receiver
\* ------------------------------------------------------------------------
TaskInit ==
    /\ receiver = << >>
    /\ receiverClosed = FALSE
    /\ pushed = << >>
    /\ stepResultClosed = FALSE
    /\ mediaResultClosed = FALSE
    /\ cancelled = FALSE
    /\ taskExit = "none"
    /\ results = << >>
    /\ closedFirst = FALSE

Init ==
    /\ TaskInit
    /\ running = TRUE
    /\ exitResult = "none"
    /\ requests = << >>
    /\ inbox = << >>
    /\ inboxClosed = FALSE
    /\ active_requests = << >>
    /\ executorFutures = {}
    /\ keepAliveClosed = {}
    /\ keepAliveWatchers = {}
    /\ cached_workflows = << >>
    /\ workflow_manager = None
    /\ managerEvents = << >>
    /\ subscriptionClosed = FALSE
    /\ published = 0
    /\ managerGoneWatchers = [h \in Handles |-> 0]
    /\ closedManagers = {}
    /\ sent = << >>
    /\ replies = << >>
    /\ upserted = [s \in Streams |-> {}]
    /\ upsertedNames = [s \in Streams |-> {}]
    /\ resolved = << >>
    /\ overlapping = {}
    /\ replyDropped = {}
    /\ superseded = {}


\* ------------------------------------------------------------------------
\* Helpers over HashMap-like partial functions
\* ------------------------------------------------------------------------
Insert(map, key, value) == (key :> value) @@ map

Remove(map, key) == [k \in (DOMAIN map) \ {key} |-> map[k]]

\* All orders in which HashMap::values may visit the entries of a map.
IterationOrders(map) ==
    { order \in [1..Cardinality(DOMAIN map) -> DOMAIN map] :
        \A i, j \in DOMAIN order : i # j => order[i] # order[j] }

\* ------------------------------------------------------------------------
\* Cache operations of handle_executor_response / handle_keep_alive_closed
\* ------------------------------------------------------------------------
CachedWorkflow(definition, keep_alive_count) ==
    [definition |-> definition, keep_alive_count |-> keep_alive_count]

\* Bump with the increment of line 211 left out.
Bump_NoIncrement(cache, stream_name, workflow) ==
    IF stream_name \in DOMAIN cache
        THEN [cache EXCEPT ![stream_name] =
                CachedWorkflow(workflow, cache[stream_name].keep_alive_count)]
        ELSE Insert(cache, stream_name, CachedWorkflow(workflow, 1))

\* Bump with the definition of an existing entry kept.
Bump_KeepsDefinition(cache, stream_name, workflow) ==
    IF stream_name \in DOMAIN cache
        THEN [cache EXCEPT ![stream_name].keep_alive_count = @ + 1]
        ELSE Insert(cache, stream_name, CachedWorkflow(workflow, 1))

\* reactor.rs 209-220
Bump(cache, stream_name, workflow) ==
    IF stream_name \in DOMAIN cache
        THEN [cache EXCEPT ![stream_name] =
                CachedWorkflow(workflow, cache[stream_name].keep_alive_count + 1)]
        ELSE Insert(cache, stream_name, CachedWorkflow(workflow, 1))

\* Release with the remove of line 286 left out.
Release_KeepsEmptyEntry(cache, stream_name) ==
    IF stream_name \notin DOMAIN cache
        THEN cache
        ELSE [cache EXCEPT ![stream_name].keep_alive_count = @ - 1]

\* reactor.rs 269-271, 286
Release(cache, stream_name) ==
    IF stream_name \notin DOMAIN cache
        THEN cache
        ELSE IF cache[stream_name].keep_alive_count - 1 = 0
            THEN Remove(cache, stream_name)
            ELSE [cache EXCEPT ![stream_name].keep_alive_count = @ - 1]

\* ResponseUpserts with the request id built from the workflow's name.
ResponseUpserts_WorkflowNameInId(manager, stream_name, workflow) ==
    IF IsSome(manager)
        THEN << UpsertWorkflow(Unwrap(manager), StreamRequestId(workflow.name),
                               workflow) >>
        ELSE << >>

\* reactor.rs 226-233: the upsert that follows a bump
ResponseUpserts(manager, stream_name, workflow) ==
    IF IsSome(manager)
        THEN << UpsertWorkflow(Unwrap(manager), StreamRequestId(stream_name),
                               workflow) >>
        ELSE << >>

\* ReleaseStops naming the stream instead of the workflow.
ReleaseStops_StreamName(manager, cache, stream_name) ==
    IF /\ stream_name \in DOMAIN cache
       /\ cache[stream_name].keep_alive_count - 1 = 0
       /\ IsSome(manager)
        THEN << StopWorkflow(Unwrap(manager), StopRequestId, stream_name) >>
        ELSE << >>

\* ReleaseStops without the test of the count.
ReleaseStops_EveryRelease(manager, cache, stream_name) ==
    IF /\ stream_name \in DOMAIN cache
       /\ IsSome(manager)
        THEN << StopWorkflow(Unwrap(manager), StopRequestId,
                             cache[stream_name].definition.name) >>
        ELSE << >>

\* ReleaseStops sending a stop named after the stream when it has no entry.
ReleaseStops_UnknownStops(manager, cache, stream_name) ==
    IF stream_name \notin DOMAIN cache
        THEN IF IsSome(manager)
                THEN << StopWorkflow(Unwrap(manager), StopRequestId, stream_name) >>
                ELSE << >>
        ELSE IF /\ cache[stream_name].keep_alive_count - 1 = 0
                /\ IsSome(manager)
                THEN << StopWorkflow(Unwrap(manager), StopRequestId,
                                     cache[stream_name].definition.name) >>
                ELSE << >>

\* reactor.rs 271-284: the stop sent when the count reaches zero
ReleaseStops(manager, cache, stream_name) ==
    IF /\ stream_name \in DOMAIN cache
       /\ cache[stream_name].keep_alive_count - 1 = 0
       /\ IsSome(manager)
        THEN << StopWorkflow(Unwrap(manager), StopRequestId,
                             cache[stream_name].definition.name) >>
        ELSE << >>

\* CatchupUpserts leaving the loop after its first iteration.
CatchupUpserts_FirstOnly(channel, cache, order) ==
    [ i \in (DOMAIN order) \cap {1} |->
        UpsertWorkflow(channel, CatchupRequestId, cache[order[i]].definition) ]

\* reactor.rs 254-261: one upsert per cached workflow, in iteration order
CatchupUpserts(channel, cache, order) ==
    [ i \in DOMAIN order |->
        UpsertWorkflow(channel, CatchupRequestId, cache[order[i]].definition) ]

\* The handle and workflow name of the upserts of msgs that were taken.
NamesDeliveredTo(msgs) ==
    { << msgs[i].to, msgs[i].definition.name >> :
        i \in { j \in DOMAIN msgs : msgs[j].delivered } }

\* The handles that took a message of msgs.
DeliveredTo(msgs) == { msgs[i].to : i \in { j \in DOMAIN msgs : msgs[j].delivered } }

\* Actor::run returns: self, and with it every field and pending future, is
\* dropped.
Dropped(result) ==
    /\ running' = FALSE
    /\ exitResult' = result
    /\ active_requests' = << >>
    /\ executorFutures' = {}
    /\ keepAliveWatchers' = {}
    /\ cached_workflows' = << >>
    /\ workflow_manager' = None
    /\ managerGoneWatchers' = [h \in Handles |-> 0]
    /\ sent' = << >>
    /\ upserted' = [s \in Streams |-> {}]
    /\ upsertedNames' = [s \in Streams |-> {}]
    /\ replyDropped' = {}
    /\ UNCHANGED << replies, resolved, overlapping, superseded >>

\* ------------------------------------------------------------------------
\* Environment
\* ------------------------------------------------------------------------
\* A requester sends CreateWorkflowNameForStream on the request channel (a
\* send after the actor dropped the receiver fails and changes nothing).
SendRequest(stream_name) ==
    /\ running
    /\ ~inboxClosed
    /\ Len(requests) < MaxRequests
    /\ requests' = Append(requests, stream_name)
    /\ inbox' = Append(inbox, Len(requests) + 1)
    /\ UNCHANGED << running, exitResult, inboxClosed, active_requests,
                    executorFutures, keepAliveClosed, keepAliveWatchers,
                    cached_workflows, workflow_manager, managerEvents,
                    subscriptionClosed, published, managerGoneWatchers,
                    closedManagers, sent, replies, upserted,
                    upsertedNames, resolved,
                    overlapping, replyDropped, superseded >>
    /\ UNCHANGED taskVars

\* The last sender of the request channel is dropped.
DropRequestSenders ==
    /\ ~inboxClosed
    /\ inboxClosed' = TRUE
    /\ UNCHANGED << running, exitResult, requests, inbox, active_requests,
                    executorFutures, keepAliveClosed, keepAliveWatchers,
                    cached_workflows, workflow_manager, managerEvents,
                    subscriptionClosed, published, managerGoneWatchers,
                    closedManagers, sent, replies, upserted,
                    upsertedNames, resolved,
                    overlapping, replyDropped, superseded >>
    /\ UNCHANGED taskVars

\* The sender half of request id's keep-alive channel is dropped or signalled.
CloseKeepAlive(id) ==
    /\ id \in DOMAIN requests
    /\ id \notin keepAliveClosed
    /\ keepAliveClosed' = keepAliveClosed \cup {id}
    /\ UNCHANGED << running, exitResult, requests, inbox, inboxClosed,
                    active_requests, executorFutures, keepAliveWatchers,
                    cached_workflows, workflow_manager, managerEvents,
                    subscriptionClosed, published, managerGoneWatchers,
                    closedManagers, sent, replies, upserted,
                    upsertedNames, resolved,
                    overlapping, replyDropped, superseded >>
    /\ UNCHANGED taskVars

\* The event hub publishes WorkflowManagerRegistered { channel } to the
\* subscription channel (a send after the actor dropped the receiver fails
\* and changes nothing).
PublishManagerRegistered(channel) ==
    /\ running
    /\ ~subscriptionClosed
    /\ published < MaxRegistrations
    /\ published' = published + 1
    /\ managerEvents' = Append(managerEvents, channel)
    /\ UNCHANGED << running, exitResult, requests, inbox, inboxClosed,
                    active_requests, executorFutures, keepAliveClosed,
                    keepAliveWatchers, cached_workflows, workflow_manager,
                    subscriptionClosed, managerGoneWatchers, closedManagers,
                    sent, replies, upserted,
                    upsertedNames, resolved,
                    overlapping, replyDropped, superseded >>
    /\ UNCHANGED taskVars

\* The event hub drops the subscription sender (or never took it: the send
\* of the SubscriptionRequest in Actor::new failed).
CloseSubscription ==
    /\ ~subscriptionClosed
    /\ subscriptionClosed' = TRUE
    /\ UNCHANGED << running, exitResult, requests, inbox, inboxClosed,
                    active_requests, executorFutures, keepAliveClosed,
                    keepAliveWatchers, cached_workflows, workflow_manager,
                    managerEvents, published, managerGoneWatchers,
                    closedManagers, sent, replies, upserted,
                    upsertedNames, resolved,
                    overlapping, replyDropped, superseded >>
    /\ UNCHANGED taskVars

\* A workflow manager that the event hub announced drops the receiver of its
\* request channel.
CloseManager(channel) ==
    /\ channel \in Range(managerEvents) \/ managerGoneWatchers[channel] > 0
    /\ channel \notin closedManagers
    /\ closedManagers' = closedManagers \cup {channel}
    /\ UNCHANGED << running, exitResult, requests, inbox, inboxClosed,
                    active_requests, executorFutures, keepAliveClosed,
                    keepAliveWatchers, cached_workflows, workflow_manager,
                    managerEvents, subscriptionClosed, published,
                    managerGoneWatchers, sent, replies, upserted,
                    upsertedNames, resolved,
                    overlapping, replyDropped, superseded >>
    /\ UNCHANGED taskVars

\* The requester of request id drops the receiver of its reply channel while
\* the actor holds the sender in active_requests (a receiver dropped earlier
\* is found dropped by the same send; once the sender is used or dropped the
\* channel is gone).
DropReplyReceiver(id) ==
    /\ id \in Range(active_requests)
    /\ id \notin replyDropped
    /\ replyDropped' = replyDropped \cup {id}
    /\ UNCHANGED << running, exitResult, requests, inbox, inboxClosed,
                    active_requests, executorFutures, keepAliveClosed,
                    keepAliveWatchers, cached_workflows, workflow_manager,
                    managerEvents, subscriptionClosed, published,
                    managerGoneWatchers, closedManagers, sent, replies,
                    upserted, upsertedNames, resolved, overlapping, superseded >>
    /\ UNCHANGED taskVars

\* ------------------------------------------------------------------------
\* The actor: one action per arm of the match in Actor::run
\* ------------------------------------------------------------------------
\* InsertPending keeping the reply channel already recorded for the stream.
InsertPending_KeepsFirst(active, stream_name, channel) ==
    IF stream_name \in DOMAIN active
        THEN active
        ELSE Insert(active, stream_name, channel)

\* reactor.rs 170-171: HashMap::insert replaces (and drops) the sender that
\* was recorded for the stream name.
InsertPending(active, stream_name, channel) ==
    Insert(Remove(active, stream_name), stream_name, channel)

\* wait_for_request yields RequestReceived; run re-arms the wait and calls
\* handle_request (reactor.rs 133-136, 158-179).
HandleRequest ==
    /\ running
    /\ inbox # << >>
    /\ LET id == Head(inbox)
           stream_name == requests[id]
       IN  /\ inbox' = Tail(inbox)
           /\ active_requests' = InsertPending(active_requests, stream_name, id)
           /\ superseded' =
                IF stream_name \in DOMAIN active_requests
                    THEN superseded \cup {active_requests[stream_name]}
                    ELSE superseded
           /\ replyDropped' = replyDropped \cap Range(active_requests')
           /\ executorFutures' = executorFutures \cup {id}
           /\ overlapping' =
                IF \E other \in executorFutures : requests[other] = stream_name
                    THEN overlapping \cup {id} ELSE overlapping
    /\ sent' = << >>
    /\ UNCHANGED << running, exitResult, requests, inboxClosed, keepAliveClosed,
                    keepAliveWatchers, cached_workflows, workflow_manager,
                    managerEvents, subscriptionClosed, published,
                    managerGoneWatchers, closedManagers, replies, upserted, upsertedNames,
                    resolved >>
    /\ UNCHANGED taskVars

\* HandleAllRequestConsumersGone taken as soon as the senders are dropped,
\* with requests still queued.
HandleAllRequestConsumersGone_IgnoresQueued ==
    /\ running
    /\ inboxClosed
    /\ Dropped("AllRequestConsumersGone")
    /\ UNCHANGED envVars
    /\ UNCHANGED taskVars

\* wait_for_request yields AllRequestConsumersGone (reactor.rs 114-117,
\* 298-303).
HandleAllRequestConsumersGone ==
    /\ running
    /\ inbox = << >>
    /\ inboxClosed
    /\ Dropped("AllRequestConsumersGone")
    /\ UNCHANGED envVars
    /\ UNCHANGED taskVars

\* ReplyValue answering None whatever the executor returned.
ReplyValue_AlwaysNone(workflow) ==
    None

\* reactor.rs 235, 242: the value sent on the reply channel.
ReplyValue(workflow) ==
    IF IsSome(workflow) THEN Some(Unwrap(workflow).name) ELSE None

\* OrphanResponse with the keep-alive watcher armed before the lookup.
OrphanResponse_ArmsWatcher(id, stream_name, workflow) ==
    /\ sent' = << >>
    /\ keepAliveWatchers' = keepAliveWatchers \cup {id}
    /\ replyDropped' = replyDropped \cap Range(active_requests)
    /\ UNCHANGED << active_requests, cached_workflows, replies, upserted, upsertedNames >>

\* reactor.rs 189-197: no active request is recorded for the stream name.
OrphanResponse(id, stream_name, workflow) ==
    /\ sent' = << >>
    /\ replyDropped' = replyDropped \cap Range(active_requests)
    /\ UNCHANGED << active_requests, cached_workflows, keepAliveWatchers,
                    replies, upserted, upsertedNames >>

\* NoneResponse with the keep-alive watcher of lines 222-224 armed.
NoneResponse_ArmsWatcher(id, stream_name, channel) ==
    /\ active_requests' = Remove(active_requests, stream_name)
    /\ replies' = Insert(replies, channel, ReplyValue(None))
    /\ replyDropped' = replyDropped \cap (Range(active_requests') \cup {channel})
    /\ sent' = << >>
    /\ keepAliveWatchers' = keepAliveWatchers \cup {id}
    /\ UNCHANGED << cached_workflows, upserted, upsertedNames >>

\* reactor.rs 236-243: the executor returned no workflow.
NoneResponse(id, stream_name, channel) ==
    /\ active_requests' = Remove(active_requests, stream_name)
    /\ replies' = Insert(replies, channel, ReplyValue(None))
    /\ replyDropped' = replyDropped \cap (Range(active_requests') \cup {channel})
    /\ sent' = << >>
    /\ UNCHANGED << cached_workflows, keepAliveWatchers, upserted, upsertedNames >>

\* SomeResponse with the reply sent first and a failed send returning early.
SomeResponse_ReturnsOnFailedReply(id, stream_name, channel, def) ==
    LET msgs == ResponseUpserts(workflow_manager, stream_name, def)
        before == IF stream_name \in DOMAIN cached_workflows
                    THEN upserted[stream_name] ELSE {}
    IN  /\ active_requests' = Remove(active_requests, stream_name)
        /\ replies' = Insert(replies, channel, ReplyValue(Some(def)))
        /\ replyDropped' = replyDropped \cap (Range(active_requests') \cup {channel})
        /\ IF channel \in replyDropped
              THEN /\ sent' = << >>
                   /\ UNCHANGED << cached_workflows, keepAliveWatchers, upserted, upsertedNames >>
              ELSE /\ cached_workflows' = Bump(cached_workflows, stream_name, def)
                   /\ keepAliveWatchers' = keepAliveWatchers \cup {id}
                   /\ sent' = msgs
                   /\ upserted' = [upserted EXCEPT ![stream_name] =
                                       before \cup DeliveredTo(msgs)]
                   /\ upsertedNames' = [upsertedNames EXCEPT ![stream_name] =
                        (IF stream_name \in DOMAIN cached_workflows THEN @ ELSE {})
                            \cup NamesDeliveredTo(msgs)]

\* SomeResponse pushing no watcher for a keep-alive that has already closed.
SomeResponse_DropsClosedKeepAlive(id, stream_name, channel, def) ==
    LET msgs == ResponseUpserts(workflow_manager, stream_name, def)
        before == IF stream_name \in DOMAIN cached_workflows
                    THEN upserted[stream_name] ELSE {}
    IN  /\ active_requests' = Remove(active_requests, stream_name)
        /\ cached_workflows' = Bump(cached_workflows, stream_name, def)
        /\ keepAliveWatchers' = IF id \in keepAliveClosed
                                   THEN keepAliveWatchers
                                   ELSE keepAliveWatchers \cup {id}
        /\ sent' = msgs
        /\ upserted' = [upserted EXCEPT ![stream_name] =
                            before \cup DeliveredTo(msgs)]
        /\ upsertedNames' = [upsertedNames EXCEPT ![stream_name] =
                (IF stream_name \in DOMAIN cached_workflows THEN @ ELSE {})
                    \cup NamesDeliveredTo(msgs)]
        /\ replies' = Insert(replies, channel, ReplyValue(Some(def)))
        /\ replyDropped' = replyDropped \cap (Range(active_requests') \cup {channel})

\* reactor.rs 200-235: the executor returned a workflow.  The result of the
\* send on the reply channel is ignored.
SomeResponse(id, stream_name, channel, def) ==
    LET msgs == ResponseUpserts(workflow_manager, stream_name, def)
        before == IF stream_name \in DOMAIN cached_workflows
                    THEN upserted[stream_name] ELSE {}
    IN  /\ active_requests' = Remove(active_requests, stream_name)
        /\ cached_workflows' = Bump(cached_workflows, stream_name, def)
        /\ keepAliveWatchers' = keepAliveWatchers \cup {id}
        /\ sent' = msgs
        /\ upserted' = [upserted EXCEPT ![stream_name] =
                            before \cup DeliveredTo(msgs)]
        /\ upsertedNames' = [upsertedNames EXCEPT ![stream_name] =
                (IF stream_name \in DOMAIN cached_workflows THEN @ ELSE {})
                    \cup NamesDeliveredTo(msgs)]
        /\ replies' = Insert(replies, channel, ReplyValue(Some(def)))
        /\ replyDropped' = replyDropped \cap (Range(active_requests') \cup {channel})

\* The executor's future of request id completes with workflow (Some(def) or
\* None), wait_for_executor_response yields ExecutorResponseReceived and run
\* calls handle_executor_response (reactor.rs 138-144, 181-244, 305-316).
HandleExecutorResponse(id, workflow) ==
    /\ running
    /\ id \in executorFutures
    /\ LET stream_name == requests[id]
       IN  /\ executorFutures' = executorFutures \ {id}
           /\ resolved' = Insert(resolved, id, workflow)
           /\ IF stream_name \notin DOMAIN active_requests
                THEN OrphanResponse(id, stream_name, workflow)
                ELSE IF IsSome(workflow)
                    THEN SomeResponse(id, stream_name,
                                      active_requests[stream_name],
                                      Unwrap(workflow))
                    ELSE NoneResponse(id, stream_name,
                                      active_requests[stream_name])
    /\ UNCHANGED << running, exitResult, workflow_manager, managerGoneWatchers,
                    overlapping, superseded >>
    /\ UNCHANGED envVars
    /\ UNCHANGED taskVars

\* wait_for_workflow_manager_event yields WorkflowManagerEventReceived; run
\* re-arms the wait and calls handle_workflow_manager_event (reactor.rs
\* 146-151, 246-266).
HandleWorkflowManagerEvent ==
    /\ running
    /\ managerEvents # << >>
    /\ LET channel == Head(managerEvents) IN
       /\ managerEvents' = Tail(managerEvents)
       /\ managerGoneWatchers' = [managerGoneWatchers EXCEPT ![channel] = @ + 1]
       /\ \E order \in IterationOrders(cached_workflows) :
            sent' = CatchupUpserts(channel, cached_workflows, order)
       /\ upserted' = [s \in Streams |->
                         IF s \in DOMAIN cached_workflows /\ channel \notin closedManagers
                            THEN upserted[s] \cup {channel} ELSE upserted[s]]
       /\ upsertedNames' = [s \in Streams |->
                         IF s \in DOMAIN cached_workflows /\ channel \notin closedManagers
                            THEN upsertedNames[s] \cup
                                    {<< channel, cached_workflows[s].definition.name >>}
                            ELSE upsertedNames[s]]
       /\ workflow_manager' = Some(channel)
    /\ UNCHANGED << running, exitResult, requests, inbox, inboxClosed,
                    active_requests, executorFutures, keepAliveClosed,
                    keepAliveWatchers, cached_workflows, subscriptionClosed,
                    published, closedManagers, replies, resolved, overlapping,
                    superseded >>
    /\ replyDropped' = replyDropped \cap Range(active_requests)
    /\ UNCHANGED taskVars

\* HandleEventHubGone taken as soon as the subscription closes, with events
\* still queued.
HandleEventHubGone_IgnoresQueued ==
    /\ running
    /\ subscriptionClosed
    /\ Dropped("EventHubGone")
    /\ UNCHANGED envVars
    /\ UNCHANGED taskVars

\* wait_for_workflow_manager_event yields EventHubGone (reactor.rs 119-122,
\* 318-325).
HandleEventHubGone ==
    /\ running
    /\ managerEvents = << >>
    /\ subscriptionClosed
    /\ Dropped("EventHubGone")
    /\ UNCHANGED envVars
    /\ UNCHANGED taskVars

\* notify_workflow_manager_gone yields WorkflowManagerGone (reactor.rs
\* 124-127, 327-332).
HandleWorkflowManagerGone(channel) ==
    /\ running
    /\ managerGoneWatchers[channel] > 0
    /\ channel \in closedManagers
    /\ Dropped("WorkflowManagerGone")
    /\ UNCHANGED envVars
    /\ UNCHANGED taskVars

\* notify_when_keep_alive_closed yields KeepAliveChannelClosed; run calls
\* handle_keep_alive_closed (reactor.rs 129-131, 268-295, 334-340).
HandleKeepAliveClosed(id) ==
    /\ running
    /\ id \in keepAliveWatchers
    /\ id \in keepAliveClosed
    /\ LET stream_name == requests[id] IN
       /\ keepAliveWatchers' = keepAliveWatchers \ {id}
       /\ sent' = ReleaseStops(workflow_manager, cached_workflows, stream_name)
       /\ cached_workflows' = Release(cached_workflows, stream_name)
       /\ upserted' = [upserted EXCEPT ![stream_name] =
                            IF stream_name \in DOMAIN cached_workflows'
                               THEN @ ELSE {}]
       /\ upsertedNames' = [upsertedNames EXCEPT ![stream_name] =
                            IF stream_name \in DOMAIN cached_workflows'
                               THEN @ ELSE {}]
    /\ UNCHANGED << running, exitResult, active_requests, executorFutures,
                    workflow_manager, managerGoneWatchers, replies, resolved,
                    overlapping, superseded >>
    /\ replyDropped' = replyDropped \cap Range(active_requests)
    /\ UNCHANGED envVars
    /\ UNCHANGED taskVars

\* ------------------------------------------------------------------------
\* Specification
\* ------------------------------------------------------------------------
Next ==
    \/ \E stream_name \in Streams : SendRequest(stream_name)
    \/ DropRequestSenders
    \/ \E id \in RequestIds : CloseKeepAlive(id)
    \/ \E channel \in Handles : PublishManagerRegistered(channel)
    \/ CloseSubscription
    \/ \E channel \in Handles : CloseManager(channel)
    \/ \E id \in RequestIds : DropReplyReceiver(id)
    \/ HandleRequest
    \/ HandleAllRequestConsumersGone
    \/ \E id \in RequestIds, d \in Definitions : HandleExecutorResponse(id, Some(d))
    \/ \E id \in RequestIds : HandleExecutorResponse(id, None)
    \/ HandleWorkflowManagerEvent
    \/ HandleEventHubGone
    \/ \E channel \in Handles : HandleWorkflowManagerGone(channel)
    \/ \E id \in RequestIds : HandleKeepAliveClosed(id)

Spec == Init /\ [][Next]_vars

\* FuturesUnordered yields every future that is ready: the wait_for_request
\* and wait_for_workflow_manager_event futures, pushed again after every item
\* (reactor.rs 133-135, 146-148), are taken once their channel holds an item
\* or is closed.
FairSpec ==
    /\ Spec
    /\ WF_vars(HandleRequest)
    /\ WF_vars(HandleAllRequestConsumersGone)
    /\ WF_vars(HandleWorkflowManagerEvent)
    /\ WF_vars(HandleEventHubGone)

\* Every keep-alive sender handed in with a request is closed or dropped,
\* and FuturesUnordered yields every ready notify_when_keep_alive_closed
\* future (reactor.rs 129-131, 222-224, 334-340).
ReleaseFairSpec ==
    /\ Spec
    /\ \A id \in RequestIds :
        /\ WF_vars(CloseKeepAlive(id))
        /\ WF_vars(HandleKeepAliveClosed(id))

\* handle_keep_alive_closed (reactor.rs 268-295) applied to arbitrary values
\* of the fields it reads: the cache, the manager handle and the stream name
\* of each closed keep-alive.  Under Spec a watcher never outlives the entry
\* of its stream name, so the handler's path for a missing entry (the if-let
\* of line 269 not matching) is exercised here.
Caches ==
    UNION { [ D -> { CachedWorkflow(d, c) : d \in Definitions, c \in 1..MaxCount } ]
            : D \in SUBSET Streams }

KeepAliveInit ==
    /\ TaskInit
    /\ running = TRUE
    /\ exitResult = "none"
    /\ requests \in UNION { [1..n -> Streams] : n \in 1..MaxRequests }
    /\ inbox = << >>
    /\ inboxClosed = FALSE
    /\ active_requests = << >>
    /\ executorFutures = {}
    /\ keepAliveClosed = DOMAIN requests
    /\ keepAliveWatchers = DOMAIN requests
    /\ cached_workflows \in Caches
    /\ workflow_manager \in {None} \cup { Some(h) : h \in Handles }
    /\ managerEvents = << >>
    /\ subscriptionClosed = FALSE
    /\ published = 0
    /\ managerGoneWatchers =
          [h \in Handles |-> IF workflow_manager = Some(h) THEN 1 ELSE 0]
    /\ closedManagers = {}
    /\ sent = << >>
    /\ replies = << >>
    /\ upserted = [s \in Streams |-> {}]
    /\ upsertedNames = [s \in Streams |-> {}]
    /\ resolved = << >>
    /\ overlapping = {}
    /\ replyDropped = {}
    /\ superseded = {}

KeepAliveNext == \E id \in RequestIds : HandleKeepAliveClosed(id)

KeepAliveSpec == KeepAliveInit /\ [][KeepAliveNext]_vars

\* ------------------------------------------------------------------------
\* WorkflowStepFuturesChannel (workflows/steps/futures_channel.rs)
\* ------------------------------------------------------------------------
Messages == {"m1", "m2"}

\* The StepFutureResults built by the callbacks handed to the task.
on_recv(message) == [kind |-> "on_recv", message |-> message]

on_closed == [kind |-> "on_closed"]

on_cancelled == [kind |-> "on_cancelled"]

\* futures_channel.rs 46-56: the result is handed to the step future result
\* sender; the send fails when that channel's receiver is gone.
send_step_future_result(message) ==
    Append(results, [result |-> message, delivered |-> ~stepResultClosed])

\* futures_channel.rs 58-66: closed() completes when at least one of the two
\* channels is closed.
closed == stepResultClosed \/ mediaResultClosed

\* A holder of a sender of the watched receiver sends a message (a send after
\* the task dropped the receiver fails and changes nothing).
PushMessage(message) ==
    /\ taskExit = "none"
    /\ ~receiverClosed
    /\ Len(pushed) < MaxMessages
    /\ receiver' = Append(receiver, message)
    /\ pushed' = Append(pushed, message)
    /\ UNCHANGED << receiverClosed, stepResultClosed, mediaResultClosed,
                    cancelled, taskExit, results, closedFirst >>
    /\ UNCHANGED reactorVars

\* The last sender of the watched receiver is dropped.
DropReceiverSenders ==
    /\ ~receiverClosed
    /\ receiverClosed' = TRUE
    /\ UNCHANGED << receiver, pushed, stepResultClosed, mediaResultClosed,
                    cancelled, taskExit, results, closedFirst >>
    /\ UNCHANGED reactorVars

\* The workflow runner drops the receiver of the step future results.
DropStepResultReceiver ==
    /\ ~stepResultClosed
    /\ stepResultClosed' = TRUE
    /\ UNCHANGED << receiver, receiverClosed, pushed, mediaResultClosed,
                    cancelled, taskExit, results >>
    /\ UNCHANGED reactorVars
    /\ closedFirst' = ( \/ closedFirst
                        \/ /\ taskExit = "none" /\ ~closed
                           /\ ~receiverClosed /\ ~cancelled )

\* The workflow runner drops the receiver of the media results.
DropMediaResultReceiver ==
    /\ ~mediaResultClosed
    /\ mediaResultClosed' = TRUE
    /\ UNCHANGED << receiver, receiverClosed, pushed, stepResultClosed,
                    cancelled, taskExit, results >>
    /\ UNCHANGED reactorVars
    /\ closedFirst' = ( \/ closedFirst
                        \/ /\ taskExit = "none" /\ ~closed
                           /\ ~receiverClosed /\ ~cancelled )

\* A holder of the CancellationToken cancels it.
CancelToken ==
    /\ ~cancelled
    /\ cancelled' = TRUE
    /\ UNCHANGED << receiver, receiverClosed, pushed, stepResultClosed,
                    mediaResultClosed, taskExit, results, closedFirst >>
    /\ UNCHANGED reactorVars

\* The task ends: its future completes and the receiver it owns is dropped
\* with the messages still queued in it.
TaskEnds(arm) ==
    /\ taskExit' = arm
    /\ receiver' = << >>

\* RecvSome sending nothing for a message taken while a later one is queued.
RecvSome_SkipsWhenBehind ==
    /\ taskExit = "none"
    /\ receiver # << >>
    /\ results' = IF Len(receiver) > 1
                    THEN results
                    ELSE send_step_future_result(on_recv(Head(receiver)))
    /\ receiver' = Tail(receiver)
    /\ UNCHANGED << receiverClosed, pushed, stepResultClosed,
                    mediaResultClosed, cancelled, taskExit, closedFirst >>
    /\ UNCHANGED reactorVars

\* send_on_unbounded_recv, futures_channel.rs 83-88: select! takes the
\* receiver.recv() arm with Some(message).
RecvSome ==
    /\ taskExit = "none"
    /\ receiver # << >>
    /\ results' = send_step_future_result(on_recv(Head(receiver)))
    /\ receiver' = Tail(receiver)
    /\ UNCHANGED << receiverClosed, pushed, stepResultClosed,
                    mediaResultClosed, cancelled, taskExit, closedFirst >>
    /\ UNCHANGED reactorVars

\* futures_channel.rs 90-94: the receiver.recv() arm with None.
RecvNone ==
    /\ taskExit = "none"
    /\ receiver = << >>
    /\ receiverClosed
    /\ results' = send_step_future_result(on_closed)
    /\ TaskEnds("receiver_closed")
    /\ UNCHANGED << receiverClosed, pushed, stepResultClosed,
                    mediaResultClosed, cancelled, closedFirst >>
    /\ UNCHANGED reactorVars

\* futures_channel.rs 98-100: the channel.closed() arm.
ChannelClosed ==
    /\ taskExit = "none"
    /\ closed
    /\ TaskEnds("channel_closed")
    /\ UNCHANGED << receiverClosed, pushed, stepResultClosed,
                    mediaResultClosed, cancelled, results, closedFirst >>
    /\ UNCHANGED reactorVars

\* select! polls its arms in random order: any ready arm may be taken.
RecvNext ==
    \/ \E message \in Messages : PushMessage(message)
    \/ DropReceiverSenders
    \/ DropStepResultReceiver
    \/ DropMediaResultReceiver
    \/ RecvSome
    \/ RecvNone
    \/ ChannelClosed

RecvSpec == Init /\ [][RecvNext]_vars

\* The spawned task is polled whenever one of the arms of its select! is
\* ready.
RecvFairSpec == RecvSpec /\ WF_vars(RecvSome \/ RecvNone \/ ChannelClosed)

\* send_on_unbounded_recv_cancellable, futures_channel.rs 123-128: the
\* receiver.recv() arm with Some(message).
CancellableRecvSome ==
    /\ taskExit = "none"
    /\ receiver # << >>
    /\ results' = send_step_future_result(on_recv(Head(receiver)))
    /\ receiver' = Tail(receiver)
    /\ UNCHANGED << receiverClosed, pushed, stepResultClosed,
                    mediaResultClosed, cancelled, taskExit, closedFirst >>
    /\ UNCHANGED reactorVars

\* futures_channel.rs 130-134: the receiver.recv() arm with None.
CancellableRecvNone ==
    /\ taskExit = "none"
    /\ receiver = << >>
    /\ receiverClosed
    /\ results' = send_step_future_result(on_closed)
    /\ TaskEnds("receiver_closed")
    /\ UNCHANGED << receiverClosed, pushed, stepResultClosed,
                    mediaResultClosed, cancelled, closedFirst >>
    /\ UNCHANGED reactorVars

\* CancellableCancelled without the break of line 141.
CancellableCancelled_NoBreak ==
    /\ taskExit = "none"
    /\ cancelled
    /\ results' = send_step_future_result(on_cancelled)
    /\ UNCHANGED << receiver, receiverClosed, pushed, stepResultClosed,
                    mediaResultClosed, cancelled, taskExit, closedFirst >>
    /\ UNCHANGED reactorVars

\* futures_channel.rs 138-142: the cancellation_token.cancelled() arm.
CancellableCancelled ==
    /\ taskExit = "none"
    /\ cancelled
    /\ results' = send_step_future_result(on_cancelled)
    /\ TaskEnds("cancelled")
    /\ UNCHANGED << receiverClosed, pushed, stepResultClosed,
                    mediaResultClosed, cancelled, closedFirst >>
    /\ UNCHANGED reactorVars

\* futures_channel.rs 144-147: the channel.closed() arm.
CancellableChannelClosed ==
    /\ taskExit = "none"
    /\ closed
    /\ TaskEnds("channel_closed")
    /\ UNCHANGED << receiverClosed, pushed, stepResultClosed,
                    mediaResultClosed, cancelled, results, closedFirst >>
    /\ UNCHANGED reactorVars

CancellableNext ==
    \/ \E message \in Messages : PushMessage(message)
    \/ DropReceiverSenders
    \/ DropStepResultReceiver
    \/ DropMediaResultReceiver
    \/ CancelToken
    \/ CancellableRecvSome
    \/ CancellableRecvNone
    \/ CancellableCancelled
    \/ CancellableChannelClosed

CancellableSpec == Init /\ [][CancellableNext]_vars

TypeOK ==
    /\ running \in BOOLEAN
    /\ exitResult \in {"none", "AllRequestConsumersGone", "EventHubGone",
                       "WorkflowManagerGone"}
    /\ DOMAIN cached_workflows \subseteq Streams
    /\ DOMAIN active_requests \subseteq Streams
    /\ keepAliveWatchers \subseteq DOMAIN requests


\* ------------------------------------------------------------------------
\* Properties
\* ------------------------------------------------------------------------
\* The keep-alive watchers armed for a stream name.
WatchersOf(stream_name) ==
    { id \in keepAliveWatchers : requests[id] = stream_name }

\* C1: closure of the registered manager's channel never stops the actor;
\* only the closure of the request inbox and of the event hub subscription
\* do.
C1_ManagerGoneIsNotTerminal ==
    ~running => exitResult \in {"AllRequestConsumersGone", "EventHubGone"}

\* C2: when the cache holds entries, the registered manager's channel has
\* closed and a WorkflowManagerRegistered event waits on the subscription
\* (the request inbox not being exhausted), the actor stays up, and the step
\* that takes the event sends the registered handle a catch-up upsert with
\* the cached definition of every entry.
C2_ReplayAfterManagerReturns ==
    [][ ( /\ running
          /\ DOMAIN cached_workflows # {}
          /\ IsSome(workflow_manager)
          /\ Unwrap(workflow_manager) \in closedManagers
          /\ managerEvents # << >>
          /\ ~(inbox = << >> /\ inboxClosed) )
        => /\ running'
           /\ managerEvents' = Tail(managerEvents) =>
                \A s \in DOMAIN cached_workflows :
                    \E i \in DOMAIN sent' :
                        /\ sent'[i].to = Head(managerEvents)
                        /\ sent'[i].operation = "UpsertWorkflow"
                        /\ sent'[i].request_id = "reactor_r1_cache_catchup"
                        /\ sent'[i].definition = cached_workflows[s].definition
      ]_vars

\* C3: each handling of WorkflowManagerRegistered(h) sends to h exactly one
\* UpsertWorkflow per cache entry, each with the catch-up request id and the
\* cached definition, and nothing else.
C3_ReplayCompleteness ==
    [][ (running /\ managerEvents # << >> /\ managerEvents' = Tail(managerEvents))
        => /\ Len(sent') = Cardinality(DOMAIN cached_workflows)
           /\ \A i \in DOMAIN sent' :
                /\ sent'[i].to = Head(managerEvents)
                /\ sent'[i].operation = "UpsertWorkflow"
                /\ sent'[i].request_id = "reactor_r1_cache_catchup"
           /\ \A d \in Definitions :
                Cardinality({ i \in DOMAIN sent' : sent'[i].definition = d })
                  = Cardinality({ s \in DOMAIN cached_workflows :
                                    cached_workflows[s].definition = d })
           /\ cached_workflows' = cached_workflows
      ]_vars

\* Two registrations of H1 were handled in succession over a cache of two
\* entries, and the second replayed both.
C3_Witness ==
    /\ running
    /\ managerGoneWatchers["H1"] = 2
    /\ Cardinality(DOMAIN cached_workflows) = 2
    /\ Len(sent) = 2
    /\ \A i \in DOMAIN sent : sent[i].request_id = "reactor_r1_cache_catchup"

\* A step that bumps the entry of stream name s.
Bumped(s) ==
    /\ s \in DOMAIN cached_workflows'
    /\ \/ s \notin DOMAIN cached_workflows
       \/ cached_workflows'[s].keep_alive_count
            = cached_workflows[s].keep_alive_count + 1

\* C4: every bump of an entry sends exactly one UpsertWorkflow with the
\* bumped definition and the request id reactor_<name>_stream_<stream> to
\* the registered manager, and sends nothing when none is registered.
C4_UpsertFollowsBump ==
    [][ \A s \in Streams :
          Bumped(s) =>
            IF IsSome(workflow_manager)
              THEN /\ Len(sent') = 1
                   /\ sent'[1].to = Unwrap(workflow_manager)
                   /\ sent'[1].operation = "UpsertWorkflow"
                   /\ sent'[1].request_id = "reactor_r1_stream_" \o s
                   /\ sent'[1].definition = cached_workflows'[s].definition
              ELSE sent' = << >>
      ]_vars

\* The entry of camA was bumped to a count of 2 and its upsert went to the
\* registered manager.
C4_Witness ==
    /\ IsSome(workflow_manager)
    /\ "camA" \in DOMAIN cached_workflows
    /\ cached_workflows["camA"].keep_alive_count = 2
    /\ Len(sent) = 1
    /\ sent[1].request_id = "reactor_r1_stream_camA"
    /\ sent[1].definition = cached_workflows["camA"].definition

\* C5: handling a keep-alive closure that takes the count from 1 to 0
\* removes the entry and, with a manager registered, sends exactly one
\* StopWorkflow "from_reactor" naming the removed entry's definition; one
\* that leaves the count above 0 sends nothing and keeps the entry.
C5_StopOnTerminalRelease ==
    [][ \A id \in keepAliveWatchers :
          (running' /\ id \notin keepAliveWatchers'
                    /\ requests[id] \in DOMAIN cached_workflows) =>
            LET s == requests[id]
                entry == cached_workflows[s]
            IN  IF entry.keep_alive_count = 1
                  THEN /\ s \notin DOMAIN cached_workflows'
                       /\ IF IsSome(workflow_manager)
                            THEN /\ Len(sent') = 1
                                 /\ sent'[1].to = Unwrap(workflow_manager)
                                 /\ sent'[1].operation = "StopWorkflow"
                                 /\ sent'[1].request_id = "from_reactor"
                                 /\ sent'[1].name = entry.definition.name
                            ELSE sent' = << >>
                  ELSE /\ s \in DOMAIN cached_workflows'
                       /\ cached_workflows'[s].definition = entry.definition
                       /\ cached_workflows'[s].keep_alive_count
                            = entry.keep_alive_count - 1
                       /\ sent' = << >>
      ]_vars

\* The last keep-alive of a stream closed with a manager registered: the
\* entry is gone and the stop was sent.
C5_Witness ==
    /\ running
    /\ IsSome(workflow_manager)
    /\ cached_workflows = << >>
    /\ Len(sent) = 1
    /\ sent[1].operation = "StopWorkflow"
    /\ sent[1].name = "wfB"
    /\ Cardinality(DOMAIN resolved) = 2

\* C6: for every cached stream name the keep_alive_count equals the number
\* of keep-alive watchers armed for it.
C6_RefcountMatchesWatchers ==
    \A s \in DOMAIN cached_workflows :
        cached_workflows[s].keep_alive_count = Cardinality(WatchersOf(s))

\* Two watchers are armed for one stream name.
C6_Witness ==
    \E s \in DOMAIN cached_workflows : Cardinality(WatchersOf(s)) = 2

\* C7: an entry exists for a stream name iff a keep-alive watcher is armed
\* for it, and every entry has a count of at least 1.
C7_EntryIffWatcher ==
    /\ \A s \in Streams : s \in DOMAIN cached_workflows <=> WatchersOf(s) # {}
    /\ \A s \in DOMAIN cached_workflows :
            cached_workflows[s].keep_alive_count >= 1

\* The entry of one request was released and removed while the entry of
\* another stream name is still watched.
C7_Witness ==
    /\ running
    /\ \E id \in DOMAIN resolved :
        /\ IsSome(resolved[id])
        /\ id \in DOMAIN replies
        /\ id \notin keepAliveWatchers
        /\ requests[id] \notin DOMAIN cached_workflows
    /\ DOMAIN cached_workflows # {}

\* A step of the actor: it took a request, an executor response, a manager
\* event or a keep-alive closure, or it left its loop.
ActorStepped ==
    \/ running # running'
    \/ inbox # << >> /\ inbox' = Tail(inbox)
    \/ managerEvents # << >> /\ managerEvents' = Tail(managerEvents)
    \/ executorFutures' # executorFutures
    \/ keepAliveWatchers' # keepAliveWatchers

\* C8: a StopWorkflow is sent only by the step that removes an entry, alone
\* and at most once in that step, names that entry's definition, and when a
\* manager takes it that manager took an UpsertWorkflow for the same entry
\* before; no upsert is sent by the removing step.
C8_StopAfterUpsertOncePerLifetime ==
    [][ ActorStepped =>
          \A i \in DOMAIN sent' :
            sent'[i].operation = "StopWorkflow" =>
              /\ Len(sent') = 1
              /\ \E s \in (DOMAIN cached_workflows) \ (DOMAIN cached_workflows') :
                    /\ sent'[i].name = cached_workflows[s].definition.name
                    /\ sent'[i].delivered => sent'[i].to \in upserted[s]
      ]_vars

\* A stop was taken by H2 after H1 had been registered as well.
C8_Witness ==
    /\ running
    /\ Len(sent) = 1
    /\ sent[1].operation = "StopWorkflow"
    /\ sent[1].delivered
    /\ sent[1].to = "H2"
    /\ managerGoneWatchers["H1"] > 0

\* C9: two requests for one stream name, the second handled while the
\* executor call of the first was outstanding, both calls completing with
\* Some(def) and neither keep-alive closed, leave the entry with a count of
\* 2 and one watcher armed per requester.
C9_ConcurrentDuplicateBumpsTwice ==
    \A i, j \in DOMAIN resolved :
        ( /\ running
          /\ i < j
          /\ requests[i] = requests[j]
          /\ j \in overlapping
          /\ { k \in DOMAIN requests : requests[k] = requests[i] } = {i, j}
          /\ IsSome(resolved[i]) /\ IsSome(resolved[j])
          /\ keepAliveClosed \cap {i, j} = {} )
        => /\ requests[i] \in DOMAIN cached_workflows
           /\ cached_workflows[requests[i]].keep_alive_count = 2
           /\ {i, j} \subseteq keepAliveWatchers

\* C10: every executor response the actor handles finds an entry for its
\* stream name in active_requests.
C10_NoOrphanResponse ==
    [][ \A id \in executorFutures :
          (running' /\ id \notin executorFutures') =>
              requests[id] \in DOMAIN active_requests
      ]_vars


\* The executor responses taken by a step.
ResponsesTaken == { id \in executorFutures : running' /\ id \notin executorFutures' }

\* C11: every executor response whose stream name is found in
\* active_requests causes exactly one send on the reply channel removed from
\* it, carrying Some(def.name) for Some(def) and None for None; no reply
\* channel is sent on twice and no other step sends a reply.
C11_ReplyOncePerConsumedResponse ==
    [][ /\ \A id \in ResponsesTaken :
            requests[id] \in DOMAIN active_requests =>
              LET channel == active_requests[requests[id]]
                  workflow == resolved'[id]
              IN  /\ requests[id] \notin DOMAIN active_requests'
                  /\ channel \notin DOMAIN replies
                  /\ DOMAIN replies' = DOMAIN replies \cup {channel}
                  /\ replies'[channel] =
                        IF IsSome(workflow) THEN << workflow[1].name >> ELSE << >>
        /\ \A channel \in DOMAIN replies :
            channel \in DOMAIN replies' /\ replies'[channel] = replies[channel]
        /\ DOMAIN replies' # DOMAIN replies =>
            \E id \in ResponsesTaken : requests[id] \in DOMAIN active_requests
      ]_vars

\* One requester was answered Some(name) and another None.
C11_Witness ==
    \E c1, c2 \in DOMAIN replies :
        /\ IsSome(replies[c1]) /\ replies[c1][1] = "wfB"
        /\ replies[c2] = None

\* C12: an executor response (Some or None) for a stream name absent from
\* active_requests changes neither the cache, the pending table nor the
\* manager handle, sends no reply and no manager request, and arms no
\* keep-alive watcher.
C12_OrphanResponseChangesNothing ==
    [][ \A id \in ResponsesTaken :
          requests[id] \notin DOMAIN active_requests =>
            /\ cached_workflows' = cached_workflows
            /\ active_requests' = active_requests
            /\ workflow_manager' = workflow_manager
            /\ replies' = replies
            /\ sent' = << >>
            /\ keepAliveWatchers' = keepAliveWatchers
      ]_vars

\* Two overlapping requests for one stream name both completed with
\* Some(def): the second response was an orphan, one reply and one watcher
\* exist.
C12_Witness ==
    /\ running
    /\ DOMAIN resolved = {1, 2}
    /\ requests[1] = requests[2]
    /\ IsSome(resolved[1]) /\ IsSome(resolved[2])
    /\ keepAliveClosed = {}
    /\ Cardinality(keepAliveWatchers) = 1
    /\ Cardinality(DOMAIN replies) = 1

\* C13: when a request for a stream name is handled while an earlier one is
\* recorded in active_requests, the earlier reply channel is replaced in the
\* table, and no reply value is ever sent on it.
C13_PendingRequestOverwrite ==
    /\ superseded \cap Range(active_requests) = {}
    /\ superseded \cap DOMAIN replies = {}

\* The second of two overlapping requests was answered, the first was not,
\* and both executor calls have completed.
C13_Witness ==
    /\ 1 \in superseded
    /\ 2 \in DOMAIN replies
    /\ DOMAIN resolved = {1, 2}

\* C14: the manager handle is None initially, is Some(H) after the step that
\* takes WorkflowManagerRegistered(H), and is None in the running actor after
\* the step that takes the manager-gone signal; no other step of the running
\* actor changes it, so that a running actor's handle is the most recently
\* registered one whose closure has not been handled.
C14_ManagerHandleLifecycle ==
    /\ workflow_manager = None
    /\ [][ /\ Len(managerEvents') < Len(managerEvents) =>
                workflow_manager' = Some(Head(managerEvents))
           /\ (running /\ exitResult' = "WorkflowManagerGone") =>
                running' /\ workflow_manager' = None
           /\ ( /\ running'
                /\ Len(managerEvents') >= Len(managerEvents) ) =>
                workflow_manager' = workflow_manager
         ]_vars

\* C15: an executor response None for a stream name in active_requests
\* replies None, removes the entry, leaves the cache unchanged, sends no
\* manager request and arms no watcher; no request answered None ever has a
\* keep-alive watcher, so the closure of its keep-alive is never handled.
C15_ExecutorReturnsNone ==
    [][ /\ \A id \in ResponsesTaken :
            ( /\ requests[id] \in DOMAIN active_requests
              /\ resolved'[id] = None ) =>
                /\ replies'[active_requests[requests[id]]] = None
                /\ requests[id] \notin DOMAIN active_requests'
                /\ cached_workflows' = cached_workflows
                /\ sent' = << >>
                /\ keepAliveWatchers' = keepAliveWatchers
        /\ \A id \in DOMAIN resolved' :
            resolved'[id] = None => id \notin keepAliveWatchers'
      ]_vars

\* A request was answered None while the cache held an entry, and its
\* keep-alive channel has closed since.
C15_Witness ==
    /\ running
    /\ DOMAIN cached_workflows # {}
    /\ \E id \in DOMAIN resolved :
        /\ resolved[id] = None
        /\ id \in DOMAIN replies /\ replies[id] = None
        /\ id \in keepAliveClosed

\* C16: an executor response Some(def) for a stream name in active_requests
\* whose requester dropped the reply receiver still bumps the cache entry,
\* arms the keep-alive watcher and sends the upsert to the registered manager.
C16_RequesterDisappeared ==
    [][ \A id \in ResponsesTaken :
          LET s == requests[id]
              def == resolved'[id][1]
          IN  ( /\ s \in DOMAIN active_requests
                /\ IsSome(resolved'[id])
                /\ active_requests[s] \in replyDropped ) =>
                  /\ s \in DOMAIN cached_workflows'
                  /\ cached_workflows'[s].definition = def
                  /\ cached_workflows'[s].keep_alive_count =
                        IF s \in DOMAIN cached_workflows
                           THEN cached_workflows[s].keep_alive_count + 1 ELSE 1
                  /\ keepAliveWatchers' = keepAliveWatchers \cup {id}
                  /\ s \notin DOMAIN active_requests'
                  /\ sent' = IF IsSome(workflow_manager)
                               THEN << [operation |-> "UpsertWorkflow",
                                        to |-> workflow_manager[1],
                                        request_id |-> "reactor_r1_stream_" \o s,
                                        definition |-> def,
                                        delivered |-> workflow_manager[1] \notin closedManagers] >>
                               ELSE << >>
      ]_vars

\* The last step sent Some(name) on a reply channel whose receiver was
\* dropped, armed the watcher and sent the upsert.
C16_Witness ==
    /\ running
    /\ \E id \in replyDropped :
        /\ id \in DOMAIN replies /\ IsSome(replies[id])
        /\ id \in keepAliveWatchers
        /\ requests[id] \in DOMAIN cached_workflows
        /\ Len(sent) = 1 /\ sent[1].operation = "UpsertWorkflow"
                         /\ sent[1].request_id = "reactor_r1_stream_" \o requests[id]

\* C19: an executor response Some(def) for a stream name s in
\* active_requests replaces the cached definition of s by def and adds 1 to
\* keep_alive_count when s has an entry, and otherwise inserts (def, 1); the
\* entries of all other stream names are unchanged.
C19_BumpSemantics ==
    [][ \A id \in ResponsesTaken :
          LET s == requests[id]
          IN  ( /\ s \in DOMAIN active_requests
                /\ IsSome(resolved'[id]) ) =>
                  /\ DOMAIN cached_workflows' = DOMAIN cached_workflows \cup {s}
                  /\ cached_workflows'[s] =
                        [ definition |-> resolved'[id][1],
                          keep_alive_count |->
                            IF s \in DOMAIN cached_workflows
                               THEN cached_workflows[s].keep_alive_count + 1
                               ELSE 1 ]
                  /\ \A t \in DOMAIN cached_workflows \ {s} :
                        cached_workflows'[t] = cached_workflows[t]
      ]_vars

\* Two requests for one stream name, one after the other, resolved to
\* different definitions: the entry holds one of them with count 2.
C19_Witness ==
    /\ running
    /\ DOMAIN requests = {1, 2}
    /\ requests[1] = requests[2]
    /\ keepAliveWatchers = {1, 2}
    /\ resolved[1] # resolved[2]
    /\ cached_workflows[requests[1]].keep_alive_count = 2
    /\ cached_workflows[requests[1]].definition \in {resolved[1][1], resolved[2][1]}

\* C17: once all request senders are dropped the queued requests are
\* handled and the actor exits; it exits with AllRequestConsumersGone only
\* when the senders are dropped and no request is queued; after the exit no
\* reply and no manager request is sent, whatever the executor calls and
\* keep-alive channels do.
C17_ShutdownOnInboxClosure ==
    /\ inboxClosed ~> ~running
    /\ [][ (running /\ exitResult' = "AllRequestConsumersGone") =>
                (inboxClosed /\ inbox = << >> /\ ~running') ]_vars
    /\ [][ ~running =>
                (~running' /\ replies' = replies /\ sent' = << >>) ]_vars

\* The actor exited on the closure of the inbox after it answered request 1,
\* whose keep-alive has closed, and with the executor call of request 2
\* outstanding.
C17_Witness ==
    /\ exitResult = "AllRequestConsumersGone"
    /\ Len(requests) = 2
    /\ 1 \in DOMAIN replies /\ IsSome(replies[1])
    /\ 1 \in keepAliveClosed
    /\ 2 \notin DOMAIN resolved

\* C18: once the event hub subscription channel is closed (at startup
\* included) the queued events are handled and the actor exits; it exits with
\* EventHubGone only when the channel is closed and empty; after the exit no
\* reply and no manager request is sent.
C18_SubscriptionClosureIsFatal ==
    /\ subscriptionClosed ~> ~running
    /\ [][ (running /\ exitResult' = "EventHubGone") =>
                (subscriptionClosed /\ managerEvents = << >> /\ ~running') ]_vars
    /\ [][ exitResult = "EventHubGone" =>
                ( /\ exitResult' = "EventHubGone"
                  /\ replies' = replies
                  /\ sent' = << >> ) ]_vars

\* The actor exited on the closure of the subscription after it took two
\* registrations, with an executor call outstanding and a keep-alive closed.
C18_Witness ==
    /\ exitResult = "EventHubGone"
    /\ published = 2
    /\ Len(requests) = 2
    /\ 1 \in keepAliveClosed
    /\ inbox = << >>
    /\ 2 \notin DOMAIN resolved

\* C20: handling a keep-alive closure for a stream name that has no cache
\* entry leaves the cache, active_requests and the manager handle unchanged
\* and sends no StopWorkflow nor any other message.
C20_UnknownStreamReleaseIsNoOp ==
    [][ \A id \in keepAliveWatchers \ keepAliveWatchers' :
          requests[id] \notin DOMAIN cached_workflows =>
            /\ cached_workflows' = cached_workflows
            /\ active_requests' = active_requests
            /\ workflow_manager' = workflow_manager
            /\ sent' = << >>
            /\ replies' = replies
            /\ running'
      ]_vars

\* Exactly one keep-alive closure has been handled, with a manager
\* registered and another stream name cached: its stream name has no entry
\* and no stop was sent, so it had no entry before the step either.
C20_Witness ==
    /\ IsSome(workflow_manager)
    /\ DOMAIN cached_workflows # {}
    /\ sent = << >>
    /\ \E id \in DOMAIN requests :
        /\ keepAliveWatchers = DOMAIN requests \ {id}
        /\ requests[id] \notin DOMAIN cached_workflows

\* C21: every reply sent on the reply channel of a request carries the
\* outcome of the executor call spawned for that same request: the step that
\* sends on channel c takes the response of call c and sends Some(def.name)
\* or None according to it.
C21_ReplyProvenance ==
    [][ \A c \in DOMAIN replies' \ DOMAIN replies :
          /\ c \in ResponsesTaken
          /\ replies'[c] =
                IF IsSome(resolved'[c]) THEN << resolved'[c][1].name >> ELSE << >>
      ]_vars

\* C22: while the registered manager handle is open, the closure of a handle
\* registered earlier and since replaced does not end the actor and leaves
\* the registered handle in place: the actor never exits with
\* WorkflowManagerGone, and no step other than a registration changes the
\* handle.
C22_StaleManagerGoneIsIgnored ==
    [][ ( /\ running
          /\ IsSome(workflow_manager)
          /\ workflow_manager[1] \notin closedManagers
          /\ \E h \in Handles \ {workflow_manager[1]} :
                h \in closedManagers /\ managerGoneWatchers[h] > 0
          /\ Len(managerEvents') >= Len(managerEvents) ) =>
            ( /\ exitResult' # "WorkflowManagerGone"
              /\ running' => workflow_manager' = workflow_manager )
      ]_vars

\* C23: when the entry of stream name s is removed while manager H is
\* registered, every workflow name of an UpsertWorkflow that H took for s
\* while the entry was cached is named by a StopWorkflow sent to H.
C23_NoWorkflowLeftRunning ==
    [][ \A s \in (DOMAIN cached_workflows) \ (DOMAIN cached_workflows') :
          (running' /\ IsSome(workflow_manager)) =>
            \A pair \in upsertedNames[s] :
                pair[1] = workflow_manager[1] =>
                    \E i \in DOMAIN sent' :
                        /\ sent'[i].operation = "StopWorkflow"
                        /\ sent'[i].to = pair[1]
                        /\ sent'[i].name = pair[2]
      ]_vars

\* C24: when every executor call resolves and every keep-alive supplied
\* with a request is closed, an entry cached for stream name s is eventually
\* removed (or the actor has left its loop); a keep-alive that closed before
\* its executor response is handled still gets its watcher at the bump, so
\* its closure is released afterwards.
C24_EventualRelease ==
    /\ \A s \in Streams :
        (s \in DOMAIN cached_workflows) ~> (s \notin DOMAIN cached_workflows)
    /\ [][ \A id \in ResponsesTaken :
            ( /\ requests[id] \in DOMAIN active_requests
              /\ IsSome(resolved'[id])
              /\ id \in keepAliveClosed ) =>
                id \in keepAliveWatchers' ]_vars

\* Two overlapping requests for one stream name both resolved to a
\* workflow, both keep-alives closed, and the entry has been released while
\* the actor runs.
C24_Witness ==
    /\ running
    /\ DOMAIN resolved = {1, 2}
    /\ requests[1] = requests[2]
    /\ 2 \in overlapping
    /\ IsSome(resolved[1]) /\ IsSome(resolved[2])
    /\ keepAliveClosed = {1, 2}
    /\ keepAliveWatchers = {}
    /\ cached_workflows = << >>
    /\ Len(sent) = 1 /\ sent[1].operation = "StopWorkflow"

\* ------------------------------------------------------------------------
\* Properties of the futures channel tasks
\* ------------------------------------------------------------------------
IsOnRecv(r) == r.result.kind = "on_recv"

\* The messages whose on_recv result the task sent, in the order of sending.
Forwarded ==
    LET rs == SelectSeq(results, IsOnRecv)
    IN  [i \in DOMAIN rs |-> rs[i].result.message]

\* The positions in results of an on_closed or on_cancelled result.
Terminals ==
    { i \in DOMAIN results : results[i].result.kind \in {"on_closed", "on_cancelled"} }

\* C25: the task of send_on_unbounded_recv sends on_recv(m) for each message
\* taken from the receiver, in receive order; the step that takes None from
\* the receiver sends on_closed() once, after every message, and ends the
\* task; the step that observes the futures channel closed ends the task
\* without on_closed(); on_closed() is sent at most once and is the last
\* result; a task that ended sends nothing; and once the receiver's senders
\* are dropped the task ends.
C25_SendOnUnboundedRecv ==
    /\ [] ( /\ Forwarded = SubSeq(pushed, 1, Len(Forwarded))
            /\ taskExit = "none" => Len(Forwarded) + Len(receiver) = Len(pushed)
            /\ Cardinality(Terminals) <= 1
            /\ \A i \in Terminals :
                    i = Len(results) /\ results[i].result = on_closed
            /\ taskExit = "receiver_closed" =>
                    Terminals = {Len(results)} /\ Forwarded = pushed
            /\ taskExit = "channel_closed" => Terminals = {} )
    /\ [][ taskExit # "none" => results' = results /\ taskExit' = taskExit ]_vars
    /\ receiverClosed ~> (taskExit # "none")

\* Three messages, not all equal, were forwarded and delivered, then the
\* receiver closed and on_closed() was sent.
C25_Witness ==
    /\ taskExit = "receiver_closed"
    /\ Len(pushed) = 3
    /\ pushed[1] # pushed[2]
    /\ Len(results) = 4
    /\ \A i \in DOMAIN results : results[i].delivered

\* C26 as stated: when the futures channel closed before the receiver's
\* senders were dropped and before the token was cancelled, the task of
\* send_on_unbounded_recv_cancellable sends neither on_closed() nor
\* on_cancelled(); read in its weakest sense, no such result reaches the
\* step future result channel.
C26_NoTerminalWhenChannelClosesFirst ==
    closedFirst => \A i \in Terminals : ~results[i].delivered

\* C26, amended: the task sends at most one of on_closed() and
\* on_cancelled(), as its last result, on_closed() by the step that takes
\* None from the receiver and on_cancelled() by the step that takes the
\* cancellation; a task that ended sends nothing, whatever is still queued;
\* and the step that observes the futures channel closed ends the task with
\* neither terminal result.
C26_AtMostOneTerminalResult ==
    /\ [] ( /\ Cardinality(Terminals) <= 1
            /\ \A i \in Terminals : i = Len(results)
            /\ Forwarded = SubSeq(pushed, 1, Len(Forwarded))
            /\ taskExit = "none" => Terminals = {}
            /\ taskExit = "receiver_closed" =>
                    Terminals # {} /\ results[Len(results)].result = on_closed
            /\ taskExit = "cancelled" =>
                    Terminals # {} /\ results[Len(results)].result = on_cancelled
            /\ taskExit = "channel_closed" => Terminals = {} )
    /\ [][ taskExit # "none" => results' = results /\ taskExit' = taskExit ]_vars

\* The token was cancelled and on_cancelled() sent after one message was
\* forwarded and while the senders had sent more: the rest was never
\* forwarded.
C26_Witness ==
    /\ taskExit = "cancelled"
    /\ Len(Forwarded) = 1
    /\ Len(pushed) = 3
    /\ ~receiverClosed
    /\ results[Len(results)].delivered

====
